---- MODULE Spec2Model ----
(***************************************************************************)
(* Audit engine of Clear-Bill (backend/audit_service.py).                  *)
(*                                                                         *)
(* perform_audit(groq_response, json_data, db) is a synchronous function   *)
(* of its two arguments and of the AuditRule table.  The model draws the   *)
(* arguments and the table from bounded sets and applies the function in   *)
(* one step.                                                               *)
(*                                                                         *)
(* Text is a sequence of one-character strings, so that lower() and the    *)
(* substring tests of the keyword scan are computed and not assumed.       *)
(* A JSON value is a tagged record: [t |-> "obj", f |-> fields],           *)
(* [t |-> "list", l |-> elements], [t |-> "num", n |-> integer],           *)
(* [t |-> "str", s |-> characters], [t |-> "null"].  Amounts and limits    *)
(* are whole rupees.                                                       *)
(***************************************************************************)
EXTENDS Integers, Sequences, FiniteSets, TLC

VARIABLES groq_response, json_data, db, pc, result, policies, invoice_fields,
          calls, req, documents, uploads

\* the arguments, position and outcome of a single call of the audit engine
callVars == <<groq_response, json_data, db, pc, result, policies, invoice_fields>>

\* the concurrent invocations of perform_audit
concVars == <<calls>>

\* the upload requests, the Document table and the external storage
uploadVars == <<req, documents, uploads>>

vars == <<groq_response, json_data, db, pc, result, policies, invoice_fields,
          calls, req, documents, uploads>>

(* ------------------------------ bounds --------------------------------- *)

\* longest item list of a structured document
MaxItems == 2
\* most words in a model response
MaxWords == 3
\* longest list of field policies of any rule type
MaxPolicies == 2
\* longest list of required_field policies
MaxRequired == 3
\* number of concurrent invocations of perform_audit
MaxCalls == 2
\* number of upload requests in flight
MaxRequests == 2

(* ------------------------------- text ---------------------------------- *)

UpperChars ==
    <<"A","B","C","D","E","F","G","H","I","J","K","L","M",
      "N","O","P","Q","R","S","T","U","V","W","X","Y","Z">>

LowerChars ==
    <<"a","b","c","d","e","f","g","h","i","j","k","l","m",
      "n","o","p","q","r","s","t","u","v","w","x","y","z">>

\* str.lower() on one character
LowerChar(c) ==
    IF \E i \in 1..Len(UpperChars) : UpperChars[i] = c
    THEN LowerChars[CHOOSE i \in 1..Len(UpperChars) : UpperChars[i] = c]
    ELSE c

\* str.lower()
Lower(s) == [i \in 1..Len(s) |-> LowerChar(s[i])]

\* Python's  kw in content  on strings: kw occurs as a contiguous substring
Contains(kw, content) ==
    \E i \in 1..(Len(content) - Len(kw) + 1) :
        SubSeq(content, i, i + Len(kw) - 1) = kw

invoice_keywords ==
    << <<"i","n","v","o","i","c","e">>,
       <<"b","i","l","l">>,
       <<"r","e","c","e","i","p","t">>,
       <<"t","o","t","a","l">>,
       <<"a","m","o","u","n","t">>,
       <<"p","r","i","c","e">>,
       <<"c","o","s","t">>,
       <<"p","a","y","m","e","n","t">> >>

alcohol_keywords ==
    << <<"w","h","i","s","k","e","y">>,
       <<"s","c","o","t","c","h">>,
       <<"b","e","e","r">>,
       <<"w","i","n","e">>,
       <<"v","o","d","k","a">>,
       <<"r","u","m">>,
       <<"g","i","n">>,
       <<"a","l","c","o","h","o","l">>,
       <<"l","i","q","u","o","r">>,
       <<"c","h","a","m","p","a","g","n","e">>,
       <<"c","o","c","k","t","a","i","l">> >>

\* any(keyword in content for keyword in invoice_keywords)
has_invoice_format(content) ==
    \E k \in 1..Len(invoice_keywords) : Contains(invoice_keywords[k], content)

\* only the first keyword that occurs is reported
found_alcohol_First(content) ==
    LET hit(kw) == Contains(kw, content)
        all == SelectSeq(alcohol_keywords, hit)
    IN  IF all = <<>> THEN <<>> ELSE <<Head(all)>>

\* [kw for kw in alcohol_keywords if kw in content]
found_alcohol(content) ==
    LET hit(kw) == Contains(kw, content)
    IN  SelectSeq(alcohol_keywords, hit)

(* ------------------------------ results -------------------------------- *)

\* value of an optional AuditResult field that the constructor call omits
None == "None"

\* schemas.AuditResult: approval_status and status_color are optional
AuditResult(is_compliant, total_violations, violations, compliance_score, summary, approval_status, status_color) ==
    [ is_compliant     |-> is_compliant,
      total_violations |-> total_violations,
      violations       |-> violations,
      compliance_score |-> compliance_score,
      summary          |-> summary,
      approval_status  |-> approval_status,
      status_color     |-> status_color ]

\* the call returned  value  from the return statement of branch  path
Return(path, value) == [outcome |-> "return", path |-> path, value |-> value]

\* the call ended with exception  exc  leaving the function from branch  path
Raise(path, exc) == [outcome |-> "raise", path |-> path, exc |-> exc]

(* ----------------------------- JSON values ---------------------------- *)

Str(s) == [t |-> "str", s |-> s]
Num(n) == [t |-> "num", n |-> n]
Null   == [t |-> "null"]
Obj(f) == [t |-> "obj", f |-> f]
List(l) == [t |-> "list", l |-> l]

(* ------------------------- structured evaluation ----------------------- *)

\* dict.get(key, default) on a JSON object's fields
Get(f, key, default) == IF key \in DOMAIN f THEN f[key] ELSE default

DigitChars == <<"0","1","2","3","4","5","6","7","8","9">>

IsDigit(c) == \E d \in 1..10 : DigitChars[d] = c

DigitVal(c) == (CHOOSE d \in 1..10 : DigitChars[d] = c) - 1

RECURSIVE ParseDigits(_, _)
ParseDigits(s, acc) ==
    IF s = <<>> THEN acc
    ELSE ParseDigits(Tail(s), 10 * acc + DigitVal(Head(s)))

\* float(x) of a JSON value: a number is itself, a string is parsed as a
\* decimal numeral or raises ValueError, null raises TypeError
Float(x) ==
    CASE x.t = "num" -> [ok |-> TRUE, val |-> x.n]
      [] x.t = "str" ->
            IF x.s # <<>> /\ \A i \in 1..Len(x.s) : IsDigit(x.s[i])
            THEN [ok |-> TRUE, val |-> ParseDigits(x.s, 0)]
            ELSE [ok |-> FALSE, err |-> "ValueError"]
      [] OTHER -> [ok |-> FALSE, err |-> "TypeError"]

\* no fallback to the rule of "Others"
ResolveRule_NoFallback(rules_dict, category) ==
    IF category \in DOMAIN rules_dict THEN <<rules_dict[category]>>
    ELSE <<>>

\* resolution that treats a category without any rule as restricted
ResolveRule_DenyUnknown(rules_dict, category) ==
    IF category \in DOMAIN rules_dict THEN <<rules_dict[category]>>
    ELSE IF "Others" \in DOMAIN rules_dict THEN <<rules_dict["Others"]>>
    ELSE << [max_limit |-> 0, is_restricted |-> TRUE] >>

\* rules_dict.get(category), then rules_dict.get('Others') when that is
\* missing; "no rule" is the empty sequence
ResolveRule(rules_dict, category) ==
    IF category \in DOMAIN rules_dict THEN <<rules_dict[category]>>
    ELSE IF "Others" \in DOMAIN rules_dict THEN <<rules_dict["Others"]>>
    ELSE <<>>

\* the limit test with >= in place of >
ExceedsLimit_GE(amount, rule) == amount >= rule.max_limit

\* amount > rule.max_limit
ExceedsLimit(amount, rule) == amount > rule.max_limit

\* state of the item loop: the three lists, and the exception that ended it
LoopStart ==
    [violations |-> <<>>, restricted_items |-> <<>>,
     amount_violations |-> <<>>, err |-> None]

\* the iteration with the amount test as an independent  if
CheckItem_BothTests(acc, item, rules_dict) ==
    IF acc.err # None THEN acc
    ELSE IF item.t # "obj" THEN [acc EXCEPT !.err = "AttributeError"]
    ELSE
      LET item_name == Get(item.f, "name", "")
          category  == Get(item.f, "category", "Others")
          amount    == Float(Get(item.f, "amount", [t |-> "num", n |-> 0]))
          rule      == ResolveRule(rules_dict, category)
      IN  IF ~amount.ok THEN [acc EXCEPT !.err = amount.err]
          ELSE IF rule = <<>> THEN acc
          ELSE
            LET restricted ==
                  IF rule[1].is_restricted
                  THEN << [rule_name      |-> <<category, " - Restricted Category">>,
                           field_name     |-> "category",
                           violation_type |-> "restricted_item",
                           severity       |-> "high",
                           flagged_items  |-> <<item_name>>] >>
                  ELSE <<>>
                exceeded ==
                  IF ExceedsLimit(amount.val, rule[1])
                  THEN << [rule_name      |-> <<category, " - Amount Limit Exceeded">>,
                           field_name     |-> "amount",
                           violation_type |-> "amount_exceeded",
                           severity       |-> "medium",
                           flagged_items  |-> <<item_name>>] >>
                  ELSE <<>>
            IN  [acc EXCEPT
                   !.restricted_items =
                       IF restricted # <<>> THEN Append(@, item_name) ELSE @,
                   !.amount_violations =
                       IF exceeded # <<>> THEN Append(@, item_name) ELSE @,
                   !.violations = @ \o restricted \o exceeded]

\* one iteration of  for item in items
CheckItem(acc, item, rules_dict) ==
    IF acc.err # None THEN acc
    ELSE IF item.t # "obj" THEN [acc EXCEPT !.err = "AttributeError"]
    ELSE
      LET item_name == Get(item.f, "name", "")
          category  == Get(item.f, "category", "Others")
          amount    == Float(Get(item.f, "amount", [t |-> "num", n |-> 0]))
          rule      == ResolveRule(rules_dict, category)
      IN  IF ~amount.ok THEN [acc EXCEPT !.err = amount.err]
          ELSE IF rule = <<>> THEN acc
          ELSE IF rule[1].is_restricted THEN
              [acc EXCEPT
                 !.restricted_items = Append(@, item_name),
                 !.violations = Append(@,
                    [rule_name      |-> <<category, " - Restricted Category">>,
                     field_name     |-> "category",
                     violation_type |-> "restricted_item",
                     severity       |-> "high",
                     flagged_items  |-> <<item_name>>])]
          ELSE IF ExceedsLimit(amount.val, rule[1]) THEN
              [acc EXCEPT
                 !.amount_violations = Append(@, item_name),
                 !.violations = Append(@,
                    [rule_name      |-> <<category, " - Amount Limit Exceeded">>,
                     field_name     |-> "amount",
                     violation_type |-> "amount_exceeded",
                     severity       |-> "medium",
                     flagged_items  |-> <<item_name>>])]
          ELSE acc

RECURSIVE CheckItems(_, _, _)
CheckItems(acc, items, rules_dict) ==
    IF items = <<>> THEN acc
    ELSE CheckItems(CheckItem(acc, Head(items), rules_dict), Tail(items),
                    rules_dict)

\* the decision with the amount branch tested before the restricted branch
Decide_AmountFirst(acc) ==
    LET has_restricted        == Len(acc.restricted_items) > 0
        has_amount_violations == Len(acc.amount_violations) > 0
        approval_status == IF has_amount_violations THEN "warning"
                           ELSE IF has_restricted THEN "rejected"
                           ELSE "approved"
        status_color    == IF has_amount_violations THEN "yellow"
                           ELSE IF has_restricted THEN "red"
                           ELSE "green"
        compliance_score == IF has_amount_violations THEN 50
                            ELSE IF has_restricted THEN 0
                            ELSE 100
    IN  AuditResult(approval_status = "approved", Len(acc.violations),
                    acc.violations, compliance_score, <<"summary">>,
                    approval_status, status_color)

\* the decision reporting a warning as compliant
Decide_WarningCompliant(acc) ==
    LET has_restricted        == Len(acc.restricted_items) > 0
        has_amount_violations == Len(acc.amount_violations) > 0
        approval_status == IF has_restricted THEN "rejected"
                           ELSE IF has_amount_violations THEN "warning"
                           ELSE "approved"
        status_color    == IF has_restricted THEN "red"
                           ELSE IF has_amount_violations THEN "yellow"
                           ELSE "green"
        compliance_score == IF has_restricted THEN 0
                            ELSE IF has_amount_violations THEN 50
                            ELSE 100
        summary ==
            IF acc.violations = <<>>
            THEN <<"All items approved - No policy violations found">>
            ELSE IF has_restricted
            THEN <<"Cannot approve - ", Len(acc.restricted_items),
                   " restricted items found">>
            ELSE <<"Warning - ", Len(acc.amount_violations),
                   " items exceed category limits">>
    IN  AuditResult(approval_status # "rejected", Len(acc.violations),
                    acc.violations, compliance_score, summary,
                    approval_status, status_color)

\* the decision and the return statement that close the try block
Decide(acc) ==
    LET has_restricted        == Len(acc.restricted_items) > 0
        has_amount_violations == Len(acc.amount_violations) > 0
        approval_status == IF has_restricted THEN "rejected"
                           ELSE IF has_amount_violations THEN "warning"
                           ELSE "approved"
        status_color    == IF has_restricted THEN "red"
                           ELSE IF has_amount_violations THEN "yellow"
                           ELSE "green"
        compliance_score == IF has_restricted THEN 0
                            ELSE IF has_amount_violations THEN 50
                            ELSE 100
        summary ==
            IF acc.violations = <<>>
            THEN <<"All items approved - No policy violations found">>
            ELSE IF has_restricted
            THEN <<"Cannot approve - ", Len(acc.restricted_items),
                   " restricted items found">>
            ELSE <<"Warning - ", Len(acc.amount_violations),
                   " items exceed category limits">>
    IN  AuditResult(approval_status = "approved", Len(acc.violations),
                    acc.violations, compliance_score, summary,
                    approval_status, status_color)

\* the handler  except Exception as e
ErrorResult(e) ==
    AuditResult(FALSE, 1,
                << [rule_name      |-> <<"Audit Processing Error">>,
                    field_name     |-> "system",
                    violation_type |-> "processing_error",
                    severity       |-> "high",
                    message        |-> <<"Error processing audit: ", e>>] >>,
                0, <<"Audit processing failed">>, None, None)

\* the body of the try block once json.loads has returned invoice_data
Structured(invoice_data, database) ==
    IF invoice_data.t # "obj" THEN Return("error", ErrorResult("AttributeError"))
    ELSE IF ~database.up THEN Return("error", ErrorResult("OperationalError"))
    ELSE
      LET items == Get(invoice_data.f, "items", [t |-> "list", l |-> <<>>])
      IN  IF items.t # "list" THEN Return("error", ErrorResult("TypeError"))
          ELSE
            LET acc == CheckItems(LoopStart, items.l, database.rules)
            IN  IF acc.err # None THEN Return("error", ErrorResult(acc.err))
                ELSE Return("structured", Decide(acc))

(* --------------------------- keyword fallback -------------------------- *)

\* return of the branch  if not has_invoice_format
NotInvoiceResult ==
    AuditResult(TRUE, 0, <<>>, 100,
                <<"Document processed - Not an invoice, no audit required">>,
                "approved", "green")

\* return of the branch  if found_alcohol
AlcoholResult(found) ==
    AuditResult(FALSE, 1,
                << [rule_name      |-> <<"Alcohol - Restricted Category">>,
                    field_name     |-> "content",
                    violation_type |-> "restricted_item",
                    severity       |-> "high",
                    message        |->
                        <<"Document contains alcohol-related items: ", found>>,
                    flagged_items  |-> found] >>,
                0, <<"Cannot approve - Alcohol items detected">>,
                "rejected", "red")

\* the last return of the handler
NoRestrictedResult ==
    AuditResult(TRUE, 0, <<>>, 100,
                <<"Document approved - No restricted items detected">>,
                "approved", "green")

\* the handler without the test for an invoice
Fallback_NoInvoiceGate(text) ==
    IF text.t # "str" THEN Raise("fallback", "AttributeError")
    ELSE
      LET content == Lower(text.s)
      IN  IF found_alcohol(content) # <<>>
          THEN Return("fallback", AlcoholResult(found_alcohol(content)))
          ELSE Return("fallback", NoRestrictedResult)

\* the handler with the invoice keywords scanned as restricted keywords too
Fallback_InvoiceWordsFlagged(text) ==
    IF text.t # "str" THEN Raise("fallback", "AttributeError")
    ELSE
      LET content == Lower(text.s)
          hit(kw) == Contains(kw, content)
          found   == SelectSeq(invoice_keywords \o alcohol_keywords, hit)
      IN  IF ~has_invoice_format(content)
          THEN Return("fallback", NotInvoiceResult)
          ELSE IF found # <<>>
          THEN Return("fallback", AlcoholResult(found))
          ELSE Return("fallback", NoRestrictedResult)

\* the handler  except json.JSONDecodeError ; an exception raised inside a
\* handler is not caught by the sibling handler and leaves the function
Fallback(text) ==
    IF text.t # "str" THEN Raise("fallback", "AttributeError")
    ELSE
      LET content == Lower(text.s)
      IN  IF ~has_invoice_format(content)
          THEN Return("fallback", NotInvoiceResult)
          ELSE IF found_alcohol(content) # <<>>
          THEN Return("fallback", AlcoholResult(found_alcohol(content)))
          ELSE Return("fallback", NoRestrictedResult)

(* ------------------------------ entry point ---------------------------- *)

\* json.loads(json_data): None is not a string (TypeError), text that is
\* not JSON raises JSONDecodeError, JSON text yields its value
json_loads(doc) ==
    CASE doc.t = "none"      -> [ok |-> FALSE, err |-> "TypeError"]
      [] doc.t = "malformed" -> [ok |-> FALSE, err |-> "JSONDecodeError"]
      [] OTHER               -> [ok |-> TRUE, val |-> doc.v]

\* every failure of json.loads sent to the keyword fallback
perform_audit_AnyLoadErrorFallback(text, doc, database) ==
    LET parsed == json_loads(doc)
    IN  IF parsed.ok THEN Structured(parsed.val, database)
        ELSE Fallback(text)

\* the structured result overridden by the keyword scan of the raw text
perform_audit_TextScanned(text, doc, database) ==
    LET parsed == json_loads(doc)
    IN  IF parsed.ok
        THEN IF text.t = "str" /\ found_alcohol(Lower(text.s)) # <<>>
             THEN Return("structured",
                         AlcoholResult(found_alcohol(Lower(text.s))))
             ELSE Structured(parsed.val, database)
        ELSE IF parsed.err = "JSONDecodeError" THEN Fallback(text)
        ELSE Return("error", ErrorResult(parsed.err))

\* def perform_audit(groq_response, json_data, db)
perform_audit(text, doc, database) ==
    LET parsed == json_loads(doc)
    IN  IF parsed.ok THEN Structured(parsed.val, database)
        ELSE IF parsed.err = "JSONDecodeError" THEN Fallback(text)
        ELSE Return("error", ErrorResult(parsed.err))

(* --------------------------- audit with mock data ---------------------- *)

\* one iteration of the loop of perform_audit_with_mock; item['name'] of an
\* item without a name raises KeyError
CheckMockItem(acc, item, rules_dict) ==
    IF acc.err # None THEN acc
    ELSE IF item.t # "obj" THEN [acc EXCEPT !.err = "AttributeError"]
    ELSE
      LET category == Get(item.f, "category", "Others")
      IN  IF category \in DOMAIN rules_dict /\ rules_dict[category].is_restricted
          THEN IF "name" \notin DOMAIN item.f
               THEN [acc EXCEPT !.err = "KeyError"]
               ELSE [acc EXCEPT !.violations = Append(@,
                      [rule_name      |-> <<category, " - Restricted Category">>,
                       field_name     |-> "category",
                       violation_type |-> "restricted_item",
                       severity       |-> "high",
                       flagged_items  |-> <<item.f.name>>])]
          ELSE acc

RECURSIVE CheckMockItems(_, _, _)
CheckMockItems(acc, items, rules_dict) ==
    IF items = <<>> THEN acc
    ELSE CheckMockItems(CheckMockItem(acc, Head(items), rules_dict),
                        Tail(items), rules_dict)

\* the mock audit reporting compliance whenever the loop completed
perform_audit_with_mock_LoopCompleted(mock_data, database) ==
    LET items == Get(mock_data.f, "items", [t |-> "list", l |-> <<>>])
    IN  IF ~database.up THEN Raise("mock", "OperationalError")
        ELSE IF items.t # "list" THEN Raise("mock", "TypeError")
        ELSE
          LET acc == CheckMockItems(LoopStart, items.l, database.rules)
              violations == acc.violations
          IN  IF acc.err # None THEN Raise("mock", acc.err)
              ELSE Return("mock",
                     AuditResult(acc.err = None, Len(violations),
                        violations,
                        IF violations # <<>> THEN 0 ELSE 100,
                        IF violations # <<>>
                        THEN <<"Cannot approve - restricted items found">>
                        ELSE <<"All items approved">>,
                        IF violations # <<>> THEN "rejected" ELSE "approved",
                        IF violations # <<>> THEN "red" ELSE "green"))

\* def perform_audit_with_mock(mock_data, db): no try block, so every
\* exception leaves the function
perform_audit_with_mock(mock_data, database) ==
    LET items == Get(mock_data.f, "items", [t |-> "list", l |-> <<>>])
    IN  IF ~database.up THEN Raise("mock", "OperationalError")
        ELSE IF items.t # "list" THEN Raise("mock", "TypeError")
        ELSE
          LET acc == CheckMockItems(LoopStart, items.l, database.rules)
              violations == acc.violations
          IN  IF acc.err # None THEN Raise("mock", acc.err)
              ELSE Return("mock",
                     AuditResult(Len(violations) = 0, Len(violations),
                        violations,
                        IF violations # <<>> THEN 0 ELSE 100,
                        IF violations # <<>>
                        THEN <<"Cannot approve - restricted items found">>
                        ELSE <<"All items approved">>,
                        IF violations # <<>> THEN "rejected" ELSE "approved",
                        IF violations # <<>> THEN "red" ELSE "green"))

(* ----------------------------- policy evaluator ------------------------ *)

\* names bound at module level of audit_service.py: its imports and its
\* functions; a name that is neither local nor in this set raises NameError
ModuleGlobals ==
    {"json", "re", "datetime", "timedelta", "Dict", "List", "Any", "Tuple",
     "Session", "AuditPolicy", "AuditRule", "AuditResult",
     "create_default_audit_rules", "create_default_audit_policies",
     "validate_bill_format", "extract_invoice_data",
     "validate_against_policies", "perform_audit", "perform_audit_with_mock",
     "perform_basic_audit"}

\* Python truth value of a field value: None, 0.0 and '' are false
Truthy(v) ==
    /\ v.t # "null"
    /\ ~(v.t = "num" /\ v.n = 0)
    /\ ~(v.t = "str" /\ v.s = <<>>)

RECURSIVE Digits(_)
\* decimal numeral of a natural number
Digits(n) ==
    IF n < 10 THEN <<DigitChars[n + 1]>>
    ELSE Append(Digits(n \div 10), DigitChars[(n % 10) + 1])

\* str(field_value): a float prints with its fraction, a string is itself
StrOf(v) ==
    IF v.t = "num" THEN Digits(v.n) \o <<".", "0">> ELSE v.s

RECURSIVE Split(_, _, _)
\* s.split(sep), cur being the piece under construction
Split(s, sep, cur) ==
    IF s = <<>> THEN <<cur>>
    ELSE IF Head(s) = sep THEN <<cur>> \o Split(Tail(s), sep, <<>>)
    ELSE Split(Tail(s), sep, Append(cur, Head(s)))

RECURSIVE Strip(_)
\* str.strip() of blanks
Strip(s) ==
    IF s = <<>> THEN s
    ELSE IF Head(s) = " " THEN Strip(Tail(s))
    ELSE IF s[Len(s)] = " " THEN Strip(SubSeq(s, 1, Len(s) - 1))
    ELSE s

\* [kw.strip().lower() for kw in expected_value.split(',')]
Keywords(expected) ==
    LET pieces == Split(expected, ",", <<>>)
    IN  [i \in 1..Len(pieces) |-> Lower(Strip(pieces[i]))]

\* the pattern of the default policy "Invoice Number Format"
InvoiceNumberPattern ==
    <<"^","[","A","-","Z","0","-","9","-","]","+","$">>

\* re.match(pattern, text) for the patterns of the model: the default
\* pattern matches a non-empty run of capitals, digits and dashes; "(" does
\* not compile (re.error)
ReMatch(pattern, text) ==
    IF pattern = InvoiceNumberPattern
    THEN [ok |-> TRUE,
          val |-> /\ text # <<>>
                  /\ \A i \in 1..Len(text) :
                        \/ IsDigit(text[i])
                        \/ text[i] = "-"
                        \/ \E u \in 1..Len(UpperChars) : UpperChars[u] = text[i]]
    ELSE [ok |-> FALSE, err |-> "re.error"]

\* getattr(policy, 'severity', default)
Severity(policy, default) == Get(policy, "severity", default)

\* no violation
NoViolation == <<>>

\* the violation dict of a policy
PolicyViolation(policy, violation_type, default_severity) ==
    << [rule_name      |-> policy.rule_name,
        field_name     |-> policy.field_name,
        violation_type |-> violation_type,
        severity       |-> Severity(policy, default_severity)] >>

\* the content_warning violation, with its flagged_items
ContentViolation(policy, found_keywords) ==
    << [rule_name      |-> policy.rule_name,
        field_name     |-> policy.field_name,
        violation_type |-> "content_warning",
        severity       |-> Severity(policy, "warning"),
        flagged_items  |-> found_keywords] >>

Checked(violation) == [ok |-> TRUE, violation |-> violation]

Failed(exc) == [ok |-> FALSE, err |-> exc]

\* elif policy.rule_type == "amount_limit" and field_value
AmountLimitApplies(policy, field_value) ==
    policy.rule_type = "amount_limit" /\ Truthy(field_value)

\* the body of  for policy in policies  for one active policy: the
\* violation it yields (NoViolation for none), or the exception it raises
CheckPolicy(policy, invoice_data_, scope) ==
    LET field_value == Get(invoice_data_, policy.field_name, Null)
    IN
    IF policy.rule_type = "required_field" THEN
        IF policy.condition = "exists" /\ ~Truthy(field_value)
        THEN Checked(PolicyViolation(policy, "missing_field", "medium"))
        ELSE Checked(NoViolation)
    ELSE IF AmountLimitApplies(policy, field_value) THEN
        LET amount == Float(field_value)
            limit  == Float(policy.expected_value)
        IN  IF ~amount.ok \/ ~limit.ok THEN Checked(NoViolation)
            ELSE IF policy.condition = "max_value" /\ amount.val > limit.val
            THEN Checked(PolicyViolation(policy, "amount_exceeded", "medium"))
            ELSE IF policy.condition = "min_value" /\ amount.val < limit.val
            THEN Checked(PolicyViolation(policy, "amount_below_minimum", "medium"))
            ELSE Checked(NoViolation)
    ELSE IF policy.rule_type = "content_warning" THEN
        IF policy.condition # "contains_keywords" THEN Checked(NoViolation)
        ELSE IF policy.expected_value.t # "str" THEN Failed("AttributeError")
        ELSE IF "groq_response" \notin DOMAIN scope THEN Failed("NameError")
        ELSE IF scope["groq_response"].t # "str" THEN Failed("AttributeError")
        ELSE
          LET keywords == Keywords(policy.expected_value.s)
              content_text == Lower(scope["groq_response"].s)
              hit(kw) == Contains(kw, content_text)
              found_keywords == SelectSeq(keywords, hit)
          IN  IF found_keywords # <<>>
              THEN Checked(ContentViolation(policy, found_keywords))
              ELSE Checked(NoViolation)
    ELSE IF policy.rule_type = "format_check" /\ Truthy(field_value) THEN
        IF policy.condition # "format_match" THEN Checked(NoViolation)
        ELSE IF policy.expected_value.t # "str" THEN Failed("TypeError")
        ELSE
          LET m == ReMatch(policy.expected_value.s, StrOf(field_value))
          IN  IF ~m.ok THEN Failed(m.err)
              ELSE IF ~m.val
              THEN Checked(PolicyViolation(policy, "format_mismatch", "medium"))
              ELSE Checked(NoViolation)
    ELSE IF policy.rule_type = "date_range" /\ Truthy(field_value) THEN
        IF policy.condition # "within_days" THEN Checked(NoViolation)
        ELSE IF ~Float(policy.expected_value).ok THEN Checked(NoViolation)
        ELSE IF \/ Contains(<<"o","l","d">>, Lower(StrOf(field_value)))
                \/ Contains(<<"e","x","p","i","r","e","d">>,
                            Lower(StrOf(field_value)))
        THEN Checked(PolicyViolation(policy, "date_out_of_range", "medium"))
        ELSE Checked(NoViolation)
    ELSE Checked(NoViolation)

RECURSIVE CheckPolicies(_, _, _, _)
\* for policy in policies: inactive policies are skipped, the first
\* exception ends the loop
CheckPolicies(acc, policies_, invoice_data_, scope) ==
    IF policies_ = <<>> \/ acc.err # None THEN acc
    ELSE
      LET policy == Head(policies_)
          rest   == Tail(policies_)
      IN  IF ~policy.is_active
          THEN CheckPolicies(acc, rest, invoice_data_, scope)
          ELSE
            LET c == CheckPolicy(policy, invoice_data_, scope)
            IN  IF ~c.ok THEN [acc EXCEPT !.err = c.err]
                ELSE CheckPolicies(
                       [acc EXCEPT !.violations = @ \o c.violation],
                       rest, invoice_data_, scope)

\* round(x, 2) of the quotient num / den, in hundredths
Round2(num, den) == (2 * 100 * num + den) \div (2 * den)

\* the score without rounding: the quotient truncated to hundredths
ComplianceScore_Truncated(total_rules, errors) ==
    IF total_rules > 0
    THEN (100 * 100 * (total_rules - errors)) \div total_rules
    ELSE 100 * 100

\* round(max(0, (total_rules - len(errors)) / total_rules * 100), 2), or
\* 100 without active policies; the value is in hundredths of a point
ComplianceScore(total_rules, errors) ==
    IF total_rules > 0
    THEN LET num == 100 * (total_rules - errors)
         IN  IF num < 0 THEN 0 ELSE Round2(num, total_rules)
    ELSE 100 * 100

\* the evaluator counting only the violations that lower the score
validate_against_policies_CountsErrors(invoice_data_, policies_, scope) ==
    LET isActive(p) == p.is_active
        total_rules == Len(SelectSeq(policies_, isActive))
        acc == CheckPolicies([violations |-> <<>>, err |-> None],
                             policies_, invoice_data_, scope)
        violations == acc.violations
        isWarning(v) == v.severity = "warning"
        isError(v) == v.severity \in {"medium", "high"}
        warnings == SelectSeq(violations, isWarning)
        errors == SelectSeq(violations, isError)
        summary ==
            IF Len(violations) = 0
            THEN <<"Invoice is fully compliant with all audit policies">>
            ELSE <<"Invoice has ", Len(errors), " policy violations",
                   Len(warnings), " out of ", total_rules, " rules checked">>
    IN  IF acc.err # None THEN Raise("policy", acc.err)
        ELSE Return("policy",
               AuditResult(Len(violations) = 0, Len(errors), violations,
                           ComplianceScore(total_rules, Len(errors)),
                           summary, None, None))

\* def validate_against_policies(invoice_data, policies); scope holds the
\* names visible in the function besides its locals
validate_against_policies(invoice_data_, policies_, scope) ==
    LET isActive(p) == p.is_active
        total_rules == Len(SelectSeq(policies_, isActive))
        acc == CheckPolicies([violations |-> <<>>, err |-> None],
                             policies_, invoice_data_, scope)
        violations == acc.violations
        isWarning(v) == v.severity = "warning"
        isError(v) == v.severity \in {"medium", "high"}
        warnings == SelectSeq(violations, isWarning)
        errors == SelectSeq(violations, isError)
        summary ==
            IF Len(violations) = 0
            THEN <<"Invoice is fully compliant with all audit policies">>
            ELSE <<"Invoice has ", Len(errors), " policy violations",
                   Len(warnings), " out of ", total_rules, " rules checked">>
    IN  IF acc.err # None THEN Raise("policy", acc.err)
        ELSE Return("policy",
               AuditResult(Len(violations) = 0, Len(violations), violations,
                           ComplianceScore(total_rules, Len(errors)),
                           summary, None, None))

\* the names a call of validate_against_policies sees besides its locals:
\* the module globals, none of which is the model response
ValidateScope == [n \in ModuleGlobals |-> Null]

(* ------------------------------- inputs -------------------------------- *)

W_Invoice == <<"I","n","v","o","i","c","e">>
W_Receipt == <<"R","e","c","e","i","p","t">>
W_WHISKEY == <<"W","H","I","S","K","E","Y">>
W_wine    == <<"w","i","n","e">>
W_drum    == <<"d","r","u","m">>
W_spa     == <<"s","p","a">>
W_jewelry == <<"j","e","w","e","l","r","y">>
W_lunch   == <<"l","u","n","c","h">>

\* words a model response is made of
Words == {W_Invoice, W_Receipt, W_WHISKEY, W_wine, W_drum, W_spa, W_jewelry,
          W_lunch}

\* the responses of at most k words, words separated by one blank
RECURSIVE Sentences(_)
Sentences(k) ==
    IF k = 0 THEN {<<>>}
    ELSE LET shorter == Sentences(k - 1)
         IN  shorter \cup Words
             \cup {s \o <<" ">> \o w : s \in shorter \ {<<>>}, w \in Words}

\* message.content of the model client: a string, or None
NoText == [t |-> "none"]

RawTexts == {Str(s) : s \in Sentences(MaxWords)} \cup {NoText}

\* the response paired with every structured document
RawFew == {Str(W_Invoice \o <<" ">> \o W_WHISKEY)}

ItemCats == {"Food", "Alcohol", "Gadgets"}

NoFields == [k \in {} |-> Null]

\* elements of an items array
Items ==
    {Obj([name |-> "Wine Bottle", category |-> c, amount |-> Num(a)]) :
        c \in ItemCats, a \in {800, 2000}}
    \cup {Obj([name |-> "Wine Bottle", category |-> "Alcohol"]),
          Obj([amount |-> Num(2000)])}
    \cup {Obj([name |-> "Dinner", category |-> "Food", amount |-> a]) :
            a \in {Num(1500), Str(<<"1","5","0","0">>), Str(<<"a","b","c">>),
                   Null}}
    \cup {Obj(NoFields), Num(5)}

\* the item lists of at most n elements
RECURSIVE ItemLists(_)
ItemLists(n) ==
    IF n = 0 THEN {<<>>}
    ELSE LET shorter == ItemLists(n - 1)
         IN  shorter \cup {Append(l, i) : l \in shorter, i \in Items}

Malformed == [t |-> "malformed"]
NoDoc     == [t |-> "none"]
Json(v)   == [t |-> "json", v |-> v]

\* the json_data strings (or None) the model client hands over
JsonDocs ==
    {Malformed, NoDoc, Json(Null), Json(Num(7)), Json(List(<<>>)),
     Json(Obj([total_amount |-> Num(2000)])),
     Json(Obj([items |-> Null, total_amount |-> Num(0)])),
     Json(Obj([items |-> Num(3), total_amount |-> Num(0)]))}
    \cup {Json(Obj([items |-> List(l), total_amount |-> Num(2000)])) :
            l \in ItemLists(MaxItems)}

RuleCats == {"Food", "Alcohol", "Others"}

\* (max_limit, is_restricted) of an AuditRule row
RuleOpts ==
    {[max_limit |-> 1500, is_restricted |-> FALSE],
     [max_limit |-> 0,    is_restricted |-> FALSE],
     [max_limit |-> 0,    is_restricted |-> TRUE]}

\* contents of the audit_rules table, keyed by category
Stores == UNION {[S -> RuleOpts] : S \in SUBSET RuleCats}

\* the default rows of create_default_audit_rules, on the model's categories
default_rules ==
    [c \in RuleCats |->
        IF c = "Alcohol" THEN [max_limit |-> 0, is_restricted |-> TRUE]
        ELSE [max_limit |-> 1500, is_restricted |-> FALSE]]

\* the session: the table can be read, or every query raises
Databases ==
    {[up |-> TRUE, rules |-> r] : r \in Stores}
    \cup {[up |-> FALSE, rules |-> default_rules]}

\* the sessions paired with every response when the document is malformed
DatabasesFew ==
    {[up |-> u, rules |-> default_rules] : u \in BOOLEAN}

\* the documents paired with every response
JsonFew ==
    {Malformed, NoDoc, Json(Null),
     Json(Obj([items |-> List(<<Obj([name |-> "Wine Bottle",
                                     category |-> "Alcohol",
                                     amount |-> Num(800)])>>),
               total_amount |-> Num(800)]))}

NoResult == [outcome |-> "pending", path |-> "none"]

\* rule tables of perform_audit_with_mock, which reads is_restricted only
DatabasesMock ==
    {d \in Databases : \A c \in DOMAIN d.rules :
        d.rules[c].is_restricted \/ d.rules[c].max_limit # 0}

\* an item as perform_audit_with_mock sees it: the amount is not read, so
\* one amount stands for all
MockItem(item) ==
    \/ item.t # "obj"
    \/ "amount" \notin DOMAIN item.f
    \/ item.f.amount = Num(800)

\* the mock_data dictionaries
MockDocs ==
    {d \in JsonDocs :
        /\ d.t = "json"
        /\ d.v.t = "obj"
        /\ ("items" \in DOMAIN d.v.f /\ d.v.f.items.t = "list")
              => \A i \in 1..Len(d.v.f.items.l) : MockItem(d.v.f.items.l[i])}

\* an AuditPolicy row; the severity attribute is added where the row has one
Policy(rule_name, rule_type, field_name, condition, expected_value, is_active) ==
    [rule_name |-> rule_name, rule_type |-> rule_type,
     field_name |-> field_name, condition |-> condition,
     expected_value |-> expected_value, is_active |-> is_active]

WithSeverity(policy, severity) == policy @@ ("severity" :> severity)

\* required_field policies
RequiredPolicies ==
    {Policy("Invoice Number Required", "required_field", "invoice_number",
            "exists", Null, TRUE),
     WithSeverity(Policy("Amount Required", "required_field", "amount",
                         "exists", Null, TRUE), "high"),
     WithSeverity(Policy("Vendor Name Required", "required_field",
                         "vendor_name", "exists", Null, TRUE), "warning"),
     WithSeverity(Policy("Date Required", "required_field", "date",
                         "exists", Null, FALSE), "medium")}

\* policies of the other rule types, with usable and unusable expected_value
OtherPolicies ==
    {WithSeverity(Policy("Maximum Amount Limit", "amount_limit", "amount",
            "max_value", Str(<<"1","0","0","0","0">>), TRUE), "medium"),
     WithSeverity(Policy("Minimum Amount Limit", "amount_limit", "amount",
            "min_value", Str(<<"1">>), TRUE), "medium"),
     WithSeverity(Policy("Maximum Amount Limit", "amount_limit", "amount",
            "max_value", Str(<<"a","b","c">>), TRUE), "medium"),
     WithSeverity(Policy("Minimum Amount Limit", "amount_limit", "amount",
            "min_value", Null, TRUE), "medium"),
     WithSeverity(Policy("Invoice Number Format", "format_check",
            "invoice_number", "format_match", Str(InvoiceNumberPattern), TRUE),
            "medium"),
     WithSeverity(Policy("Invoice Number Format", "format_check",
            "invoice_number", "format_match", Null, TRUE), "medium"),
     WithSeverity(Policy("Invoice Number Format", "format_check",
            "invoice_number", "format_match", Str(<<"(">>), TRUE), "medium"),
     WithSeverity(Policy("Date Range Check", "date_range", "date",
            "within_days", Str(<<"3","6","5">>), TRUE), "medium"),
     WithSeverity(Policy("Date Range Check", "date_range", "date",
            "within_days", Str(<<"a","b","c">>), TRUE), "medium"),
     WithSeverity(Policy("Alcohol Content Warning", "content_warning",
            "content", "contains_keywords",
            Str(<<"a","l","c","o","h","o","l",",","b","e","e","r">>), TRUE),
            "warning"),
     WithSeverity(Policy("Alcohol Content Warning", "content_warning",
            "content", "contains_keywords", Null, TRUE), "warning")}

\* the lists of at most n policies drawn from set P
RECURSIVE PolicyLists(_, _)
PolicyLists(P, n) ==
    IF n = 0 THEN {<<>>}
    ELSE LET shorter == PolicyLists(P, n - 1)
         IN  shorter \cup {Append(l, q) : l \in shorter, q \in P}

W_INV1 == <<"I","N","V","-","1">>
W_inv1 == <<"i","n","v","1">>
W_Old  == <<"O","l","d">>
W_2024 == <<"2","0","2","4">>
W_Beer == <<"B","e","e","r">>

\* the field dictionaries handed to validate_against_policies
InvoiceData ==
    {NoFields,
     [invoice_number |-> Str(W_INV1), amount |-> Num(500),
      date |-> Str(W_2024), vendor_name |-> Str(W_lunch)],
     [amount |-> Num(0)],
     [amount |-> Num(500)],
     [amount |-> Num(20000), invoice_number |-> Str(W_inv1)],
     [amount |-> Str(<<"a","b","c">>)],
     [amount |-> Str(<<"0">>), vendor_name |-> Str(W_lunch)],
     [invoice_number |-> Str(W_INV1), date |-> Str(W_Old)]}

\* the responses the fields were extracted from
PolicyTexts == {Str(W_Invoice), Str(W_Invoice \o <<" ">> \o W_Beer)}

(* ---------------------------- state machine ---------------------------- *)

\* no invocation and no request in flight, nothing stored
NoConcurrency ==
    /\ calls = <<>>
    /\ req = <<>>
    /\ documents = {}
    /\ uploads = {}

\* a call of perform_audit: every response with the documents of JsonFew,
\* and every document and every rule table with the response of RawFew
InitAudit ==
    /\ \/ /\ groq_response \in RawTexts
          /\ json_data \in JsonFew
          /\ db \in DatabasesFew
       \/ /\ groq_response \in RawFew
          /\ json_data \in JsonDocs
          /\ db \in Databases
    /\ pc = "call"
    /\ result = NoResult
    /\ policies = <<>>
    /\ invoice_fields = NoFields
    /\ NoConcurrency

\* a call of perform_audit_with_mock
InitMock ==
    /\ groq_response = NoText
    /\ json_data \in MockDocs
    /\ db \in DatabasesMock
    /\ pc = "call_mock"
    /\ result = NoResult
    /\ policies = <<>>
    /\ invoice_fields = NoFields
    /\ NoConcurrency

\* a call of validate_against_policies on fields extracted from a response
InitPolicy ==
    /\ groq_response \in PolicyTexts
    /\ json_data = NoDoc
    /\ db = [up |-> TRUE, rules |-> default_rules]
    /\ pc = "call_policy"
    /\ result = NoResult
    /\ policies \in PolicyLists(RequiredPolicies \cup OtherPolicies, MaxPolicies)
                    \cup PolicyLists(RequiredPolicies, MaxRequired)
    /\ invoice_fields \in InvoiceData
    /\ NoConcurrency

Init == InitAudit \/ InitMock \/ InitPolicy

\* audit_result = perform_audit(groq_response, json_data, db)
PerformAudit ==
    /\ pc = "call"
    /\ result' = perform_audit(groq_response, json_data, db)
    /\ pc' = "done"
    /\ UNCHANGED <<groq_response, json_data, db, policies, invoice_fields>>
    /\ UNCHANGED <<concVars, uploadVars>>

\* perform_audit_with_mock(mock_data, db)
PerformAuditWithMock ==
    /\ pc = "call_mock"
    /\ result' = perform_audit_with_mock(json_data.v, db)
    /\ pc' = "mock_done"
    /\ UNCHANGED <<groq_response, json_data, db, policies, invoice_fields>>
    /\ UNCHANGED <<concVars, uploadVars>>

\* validate_against_policies(invoice_data, policies)
ValidateAgainstPolicies ==
    /\ pc = "call_policy"
    /\ result' = validate_against_policies(invoice_fields, policies, ValidateScope)
    /\ pc' = "policy_done"
    /\ UNCHANGED <<groq_response, json_data, db, policies, invoice_fields>>
    /\ UNCHANGED <<concVars, uploadVars>>

Next == PerformAudit \/ PerformAuditWithMock \/ ValidateAgainstPolicies

Spec == Init /\ [][Next]_vars

(* ------------------------------ startup -------------------------------- *)

\* the default policies, severity 'medium' added where the row names none;
\* the keyword list of the content warning is cut to two keywords
default_policies ==
    << WithSeverity(Policy("Invoice Number Required", "required_field",
            "invoice_number", "exists", Null, TRUE), "medium"),
       WithSeverity(Policy("Amount Required", "required_field", "amount",
            "exists", Null, TRUE), "medium"),
       WithSeverity(Policy("Maximum Amount Limit", "amount_limit", "amount",
            "max_value", Str(<<"1","0","0","0","0">>), TRUE), "medium"),
       WithSeverity(Policy("Minimum Amount Limit", "amount_limit", "amount",
            "min_value", Str(<<"1">>), TRUE), "medium"),
       WithSeverity(Policy("Invoice Number Format", "format_check",
            "invoice_number", "format_match", Str(InvoiceNumberPattern), TRUE),
            "medium"),
       WithSeverity(Policy("Date Range Check", "date_range", "date",
            "within_days", Str(<<"3","6","5">>), TRUE), "medium"),
       WithSeverity(Policy("Alcohol Content Warning", "content_warning",
            "content", "contains_keywords",
            Str(<<"a","l","c","o","h","o","l",",","b","e","e","r">>), TRUE),
            "warning") >>

\* def create_default_audit_policies(db): the policy table afterwards
create_default_audit_policies(table) ==
    LET existing_count == Len(table)
    IN  IF existing_count = 0 THEN default_policies ELSE table

\* def create_default_audit_rules(db): the rule table afterwards
create_default_audit_rules(table) ==
    LET existing_count == Cardinality(DOMAIN table)
    IN  IF existing_count = 0 THEN default_rules ELSE table

\* the documents audited after startup: one item of each category
SeedDocs ==
    {Json(Obj([items |-> List(<<Obj([name |-> "Wine Bottle", category |-> c,
                                     amount |-> Num(800)])>>),
               total_amount |-> Num(800)])) : c \in ItemCats}

\* the policy tables found at startup
SeedPolicies ==
    {<<>>} \cup {<<q>> : q \in RequiredPolicies}

\* a process starts on any content of the two tables
InitSeed ==
    /\ groq_response \in RawFew
    /\ json_data \in SeedDocs
    /\ db \in Databases
    /\ pc = "startup"
    /\ result = NoResult
    /\ policies \in SeedPolicies
    /\ invoice_fields = NoFields
    /\ NoConcurrency

\* module startup of main.py: both tables are seeded; a session that
\* cannot query ends the import with the exception
Startup ==
    /\ pc = "startup"
    /\ IF db.up
       THEN /\ policies' = create_default_audit_policies(policies)
            /\ db' = [db EXCEPT !.rules = create_default_audit_rules(@)]
            /\ pc' = "seeded"
       ELSE /\ pc' = "failed"
            /\ UNCHANGED <<policies, db>>
    /\ UNCHANGED <<groq_response, json_data, result, invoice_fields>>
    /\ UNCHANGED <<concVars, uploadVars>>

\* the audit of a document by the started process
AuditAfterStartup ==
    /\ pc = "seeded"
    /\ result' = perform_audit(groq_response, json_data, db)
    /\ pc' = "audited"
    /\ UNCHANGED <<groq_response, json_data, db, policies, invoice_fields>>
    /\ UNCHANGED <<concVars, uploadVars>>

NextSeed == Startup \/ AuditAfterStartup

SpecSeed == InitSeed /\ [][NextSeed]_vars

(* ----------------------- concurrent invocations ----------------------- *)

\* the arguments of the concurrent invocations
ConcArgs ==
    {[text |-> Str(W_Invoice \o <<" ">> \o W_WHISKEY), doc |-> Malformed],
     [text |-> Str(W_Invoice \o <<" ">> \o W_lunch), doc |-> Malformed],
     [text |-> Str(W_Invoice), doc |-> NoDoc],
     [text |-> Str(W_Invoice \o <<" ">> \o W_lunch),
      doc |-> Json(Obj([items |-> List(<<
                 Obj([name |-> "Wine Bottle", category |-> "Alcohol",
                      amount |-> Num(800)]),
                 Obj([name |-> "Dinner", category |-> "Food",
                      amount |-> Num(2000)])>>)]))],
     [text |-> Str(W_Invoice \o <<" ">> \o W_WHISKEY),
      doc |-> Json(Obj([items |-> List(<<
                 Obj([name |-> "Dinner", category |-> "Food",
                      amount |-> Num(2000)])>>)]))]}

\* the rule tables read by the concurrent invocations
ConcDatabases ==
    DatabasesFew
    \cup {[up |-> TRUE,
           rules |-> [c \in {"Others"} |->
                        [max_limit |-> 1500, is_restricted |-> FALSE]]]}

\* the frame of an invocation entering perform_audit: its arguments and its
\* local variables
Frame(args) ==
    [text |-> args.text, doc |-> args.doc, at |-> "start",
     items |-> <<>>, rules_dict |-> NoFields, acc |-> LoopStart,
     result |-> NoResult]

InitConc ==
    /\ calls \in [1..MaxCalls -> {Frame(a) : a \in ConcArgs}]
    /\ db \in ConcDatabases
    /\ groq_response = NoText
    /\ json_data = NoDoc
    /\ pc = "concurrent"
    /\ result = NoResult
    /\ policies = <<>>
    /\ invoice_fields = NoFields
    /\ req = <<>>
    /\ documents = {}
    /\ uploads = {}

\* the frame of an invocation that ended with result r
Ended(frame, r) == [frame EXCEPT !.at = "done", !.result = r]

\* invocation i runs json.loads and reads items and total_amount
LoadJson(i) ==
    /\ calls[i].at = "start"
    /\ LET parsed == json_loads(calls[i].doc)
       IN  calls' = [calls EXCEPT ![i] =
             IF ~parsed.ok
             THEN IF parsed.err = "JSONDecodeError"
                  THEN [@ EXCEPT !.at = "fallback"]
                  ELSE Ended(@, Return("error", ErrorResult(parsed.err)))
             ELSE IF parsed.val.t # "obj"
             THEN Ended(@, Return("error", ErrorResult("AttributeError")))
             ELSE [@ EXCEPT !.at = "query",
                            !.items = Get(parsed.val.f, "items", List(<<>>))]]
    /\ UNCHANGED <<callVars, uploadVars>>

\* invocation i queries the rule table and enters the loop
QueryRules(i) ==
    /\ calls[i].at = "query"
    /\ calls' = [calls EXCEPT ![i] =
          IF ~db.up
          THEN Ended(@, Return("error", ErrorResult("OperationalError")))
          ELSE IF @.items.t # "list"
          THEN Ended(@, Return("error", ErrorResult("TypeError")))
          ELSE [@ EXCEPT !.at = "loop", !.items = @.l,
                         !.rules_dict = db.rules]]
    /\ UNCHANGED <<callVars, uploadVars>>

\* the loop appending to one list shared by all invocations
CheckNextItem_SharedLists(i) ==
    /\ calls[i].at = "loop"
    /\ calls[i].items # <<>>
    /\ calls[i].acc.err = None
    /\ LET acc == CheckItem(calls[i].acc, Head(calls[i].items),
                            calls[i].rules_dict)
       IN  calls' = [j \in DOMAIN calls |->
              IF j = i THEN [calls[j] EXCEPT !.acc = acc, !.items = Tail(@)]
              ELSE [calls[j] EXCEPT !.acc = acc]]
    /\ UNCHANGED <<callVars, uploadVars>>

\* invocation i runs one iteration of  for item in items  on its own lists
CheckNextItem(i) ==
    /\ calls[i].at = "loop"
    /\ calls[i].items # <<>>
    /\ calls[i].acc.err = None
    /\ calls' = [calls EXCEPT ![i] =
          [@ EXCEPT !.acc = CheckItem(@, Head(calls[i].items),
                                      calls[i].rules_dict),
                    !.items = Tail(@)]]
    /\ UNCHANGED <<callVars, uploadVars>>

\* invocation i leaves the loop and returns its decision, or the
\* processing_error result when an iteration raised
ReturnDecision(i) ==
    /\ calls[i].at = "loop"
    /\ calls[i].items = <<>> \/ calls[i].acc.err # None
    /\ calls' = [calls EXCEPT ![i] =
          IF @.acc.err # None
          THEN Ended(@, Return("error", ErrorResult(@.acc.err)))
          ELSE Ended(@, Return("structured", Decide(@.acc)))]
    /\ UNCHANGED <<callVars, uploadVars>>

\* invocation i runs the keyword fallback on its raw text
RunFallback(i) ==
    /\ calls[i].at = "fallback"
    /\ calls' = [calls EXCEPT ![i] = Ended(@, Fallback(@.text))]
    /\ UNCHANGED <<callVars, uploadVars>>

NextConc ==
    \E i \in 1..MaxCalls :
        \/ LoadJson(i)
        \/ QueryRules(i)
        \/ CheckNextItem(i)
        \/ ReturnDecision(i)
        \/ RunFallback(i)

SpecConc == InitConc /\ [][NextConc]_vars

(* ------------------------------ upload flow --------------------------- *)

\* settings.MAX_FILE_SIZE, in the size unit of the model
MAX_FILE_SIZE == 10

\* settings.ALLOWED_EXTENSIONS
ALLOWED_EXTENSIONS == {"pdf", "png", "jpg"}

max_retries == 3

\* an uploaded file: its name and extension, its content and size, what
\* detect_file_type finds in it and what the model answers for it
UploadFile(filename, extension, size, is_processable, text, doc) ==
    [filename |-> filename, extension |-> extension, size |-> size,
     is_processable |-> is_processable, text |-> text, doc |-> doc]

FoodDoc(amount) ==
    Json(Obj([items |-> List(<<Obj([name |-> "Dinner", category |-> "Food",
                                    amount |-> Num(amount)])>>),
              total_amount |-> Num(amount)]))

WineDoc ==
    Json(Obj([items |-> List(<<Obj([name |-> "Wine Bottle",
                                    category |-> "Alcohol",
                                    amount |-> Num(800)])>>),
              total_amount |-> Num(800)]))

\* the files sent to /upload
Files ==
    {UploadFile("big.pdf", "pdf", 11, TRUE, Str(W_Invoice), FoodDoc(800)),
     UploadFile("tool.exe", "exe", 1, TRUE, Str(W_Invoice), FoodDoc(800)),
     UploadFile("blank.pdf", "pdf", 1, FALSE, Str(W_Invoice), FoodDoc(800)),
     UploadFile("memo.pdf", "pdf", 2, TRUE, Str(W_lunch), Malformed),
     UploadFile("empty.png", "png", 2, TRUE, NoText, NoDoc),
     UploadFile("dinner.pdf", "pdf", 3, TRUE,
                Str(W_Invoice \o <<" ">> \o W_lunch), FoodDoc(800)),
     UploadFile("feast.pdf", "pdf", 4, TRUE,
                Str(W_Invoice \o <<" ">> \o W_lunch), FoodDoc(2000)),
     UploadFile("wine.pdf", "pdf", 5, TRUE,
                Str(W_Invoice \o <<" ">> \o W_wine), WineDoc),
     UploadFile("whiskey.jpg", "jpg", 6, TRUE,
                Str(W_Invoice \o <<" ">> \o W_WHISKEY), Malformed)}

\* generate_file_hash(file_content): equal contents, equal hashes
generate_file_hash(file) == <<"sha256", file.filename, file.size>>

\* detect_file_type(file_content, file.filename)
detect_file_type(file) ==
    [file_type |-> IF file.extension \in {"png", "jpg"} THEN "image" ELSE "text",
     is_processable |-> file.extension \in {"png", "jpg"} \/ file.is_processable]

\* the invoice keywords of upload_document
upload_invoice_keywords ==
    << <<"i","n","v","o","i","c","e">>, <<"b","i","l","l">>,
       <<"r","e","c","e","i","p","t">>, <<"t","o","t","a","l">>,
       <<"a","m","o","u","n","t">>, <<"p","r","i","c","e">>,
       <<"c","o","s","t">>, <<"p","a","y","m","e","n","t">> >>

\* a request entering upload_document with file f
NewRequest(f) ==
    [file |-> f, at |-> "received", status |-> 0, detail |-> None,
     file_hash |-> None, file_type |-> None,
     groq_response |-> NoText, json_data |-> NoDoc,
     cloudinary_url |-> None, audit_result |-> NoResult, attempt |-> 0,
     pending |-> 0]

\* the request ended with an HTTP status
Respond(request, status, detail) ==
    [request EXCEPT !.at = "done", !.status = status, !.detail = detail]

\* the Document row a request adds
Document(request, id) ==
    [id |-> id,
     file_hash |-> request.file_hash,
     file_type |-> request.file_type,
     original_filename |-> request.file.filename,
     cloudinary_url |-> request.cloudinary_url,
     groq_response |-> request.groq_response,
     audit_result |-> request.audit_result]

\* the test of the audit result compared against the colour
BlocksDocument_ByColor(audit_result) ==
    audit_result.status_color = "rejected"

\* if audit_result and audit_result.approval_status == "rejected"
BlocksDocument(audit_result) ==
    audit_result.approval_status = "rejected"

InitUpload ==
    /\ req \in [1..MaxRequests -> {NewRequest(f) : f \in Files}]
    /\ documents = {}
    /\ uploads = {}
    /\ db = [up |-> TRUE, rules |-> default_rules]
    /\ groq_response = NoText
    /\ json_data = NoDoc
    /\ pc = "serving"
    /\ result = NoResult
    /\ policies = <<>>
    /\ invoice_fields = NoFields
    /\ calls = <<>>

\* upload_document up to the submission of the model call: the size and
\* extension checks, the duplicate lookup (which may fail and then finds
\* nothing) and the file type detection
ReceiveFile(r) ==
    /\ req[r].at = "received"
    /\ \E lookup_ok \in BOOLEAN :
         LET file == req[r].file
             file_hash == generate_file_hash(file)
             existing_doc == IF lookup_ok
                             THEN {d \in documents : d.file_hash = file_hash}
                             ELSE {}
             detected == detect_file_type(file)
         IN  req' = [req EXCEPT ![r] =
               IF file.size > MAX_FILE_SIZE
               THEN Respond(@, 413, "File too large")
               ELSE IF file.extension \notin ALLOWED_EXTENSIONS
               THEN Respond(@, 400, "File type not allowed")
               ELSE IF existing_doc # {}
               THEN Respond([@ EXCEPT !.file_hash = file_hash], 400,
                            "Duplicate flagged and cant upload again")
               ELSE IF ~detected.is_processable
               THEN Respond([@ EXCEPT !.file_hash = file_hash], 400,
                            "File cannot be processed")
               ELSE [@ EXCEPT !.file_hash = file_hash,
                              !.file_type = detected.file_type,
                              !.at = "groq"]]
    /\ UNCHANGED <<documents, uploads, callVars, concVars>>

\* the storage upload run in parallel with the model call, before the
\* response is tested for an invoice
AwaitGroq_ParallelUpload(r) ==
    /\ req[r].at = "groq"
    /\ \E groq_ok \in BOOLEAN :
         LET text == req[r].file.text
         IN  req' = [req EXCEPT ![r] =
               IF ~groq_ok THEN Respond(@, 500, "Internal server error")
               ELSE IF text.t # "str"
               THEN Respond([@ EXCEPT !.groq_response = text,
                                      !.json_data = req[r].file.doc],
                            500, "Internal server error")
               ELSE
                 LET content == Lower(text.s)
                     has_format ==
                       \E k \in 1..Len(upload_invoice_keywords) :
                           Contains(upload_invoice_keywords[k], content)
                     got == [@ EXCEPT !.groq_response = text,
                                      !.json_data = req[r].file.doc,
                                      !.cloudinary_url = req[r].file.filename]
                 IN  IF ~has_format
                     THEN Respond(got, 400,
                                  "Document rejected: Only invoice/bill documents are accepted for processing.")
                     ELSE [got EXCEPT !.at = "upload"]]
    /\ uploads' = uploads \cup {req[r].file.filename}
    /\ UNCHANGED <<documents, callVars, concVars>>

\* the model call returns, or raises, and the response is tested for an
\* invoice; an invoice is handed to the storage upload
AwaitGroq(r) ==
    /\ req[r].at = "groq"
    /\ \E groq_ok \in BOOLEAN :
         LET text == req[r].file.text
         IN  req' = [req EXCEPT ![r] =
               IF ~groq_ok THEN Respond(@, 500, "Internal server error")
               ELSE IF text.t # "str"
               THEN Respond([@ EXCEPT !.groq_response = text,
                                      !.json_data = req[r].file.doc],
                            500, "Internal server error")
               ELSE
                 LET content == Lower(text.s)
                     has_format ==
                       \E k \in 1..Len(upload_invoice_keywords) :
                           Contains(upload_invoice_keywords[k], content)
                     got == [@ EXCEPT !.groq_response = text,
                                      !.json_data = req[r].file.doc]
                 IN  IF ~has_format
                     THEN Respond(got, 400,
                                  "Document rejected: Only invoice/bill documents are accepted for processing.")
                     ELSE [got EXCEPT !.at = "upload"]]
    /\ UNCHANGED <<documents, uploads, callVars, concVars>>

\* upload_to_cloudinary stores the file under its name, or raises
UploadToCloudinary(r) ==
    /\ req[r].at = "upload"
    /\ \E upload_ok \in BOOLEAN :
         IF upload_ok
         THEN /\ uploads' = uploads \cup {req[r].file.filename}
              /\ req' = [req EXCEPT ![r] =
                    [@ EXCEPT !.at = "audit",
                              !.cloudinary_url = req[r].file.filename]]
         ELSE /\ uploads' = uploads
              /\ req' = [req EXCEPT ![r] =
                    Respond(@, 500, "Internal server error")]
    /\ UNCHANGED <<documents, callVars, concVars>>

\* the pass of the insert loop without db.rollback(): the row added by a
\* failed pass stays in the session and is committed with the next one
TryInsert_NoRollback(r, request, commit_ok) ==
    LET session == request.pending + 1
    IN  IF commit_ok
        THEN /\ documents' = documents
                    \cup {Document(request, Cardinality(documents) + k) :
                            k \in 1..session}
             /\ req' = [req EXCEPT ![r] =
                   Respond([request EXCEPT !.pending = 0], 200,
                           "Document processed and audited successfully")]
        ELSE /\ documents' = documents
             /\ req' = [req EXCEPT ![r] =
                   LET kept == [request EXCEPT !.pending = session]
                   IN  IF request.attempt = max_retries - 1
                       THEN Respond(kept, 500, "Internal server error")
                       ELSE [kept EXCEPT !.at = "sleep", !.attempt = @ + 1]]

\* one pass of the insert loop for a request whose attempt counter is
\* attempt: db.add puts the row into the session; the commit writes the
\* rows of the session, or fails and db.rollback() empties the session; the
\* last failure ends the request, an earlier one sleeps before the next pass
TryInsert(r, request, commit_ok) ==
    LET session == request.pending + 1
    IN  IF commit_ok
        THEN /\ documents' = documents
                    \cup {Document(request, Cardinality(documents) + k) :
                            k \in 1..session}
             /\ req' = [req EXCEPT ![r] =
                   Respond([request EXCEPT !.pending = 0], 200,
                           "Document processed and audited successfully")]
        ELSE /\ documents' = documents
             /\ req' = [req EXCEPT ![r] =
                   LET rolled_back == [request EXCEPT !.pending = 0]
                   IN  IF request.attempt = max_retries - 1
                       THEN Respond(rolled_back, 500, "Internal server error")
                       ELSE [rolled_back EXCEPT !.at = "sleep",
                                                !.attempt = @ + 1]]

\* the storage upload returned: the audit runs, a rejected document ends
\* the request, any other goes to the first pass of the insert loop
AuditAndInsert(r) ==
    /\ req[r].at = "audit"
    /\ LET audited == perform_audit(req[r].groq_response, req[r].json_data, db)
       IN  IF audited.outcome # "return"
           THEN /\ req' = [req EXCEPT ![r] =
                      Respond(@, 500, "Internal server error")]
                /\ documents' = documents
           ELSE IF BlocksDocument(audited.value)
           THEN /\ req' = [req EXCEPT ![r] =
                      Respond([@ EXCEPT !.audit_result = audited.value], 400,
                              "Document rejected: Restricted items found. Document cannot be approved.")]
                /\ documents' = documents
           ELSE \E commit_ok \in BOOLEAN :
                  TryInsert(r, [req[r] EXCEPT !.audit_result = audited.value],
                            commit_ok)
    /\ UNCHANGED <<uploads, callVars, concVars>>

\* asyncio.sleep(1) returned: the next pass of the insert loop
RetryInsert(r) ==
    /\ req[r].at = "sleep"
    /\ \E commit_ok \in BOOLEAN : TryInsert(r, req[r], commit_ok)
    /\ UNCHANGED <<uploads, callVars, concVars>>

NextUpload ==
    \E r \in 1..MaxRequests :
        \/ ReceiveFile(r)
        \/ AwaitGroq(r)
        \/ UploadToCloudinary(r)
        \/ AuditAndInsert(r)
        \/ RetryInsert(r)

SpecUpload == InitUpload /\ [][NextUpload]_vars

\* the row an earlier request left in the Document table for file f
StoredDocument(f, id) ==
    Document([NewRequest(f) EXCEPT
                !.file_hash = generate_file_hash(f),
                !.file_type = detect_file_type(f).file_type,
                !.groq_response = f.text,
                !.json_data = f.doc,
                !.cloudinary_url = f.filename,
                !.audit_result =
                    perform_audit(f.text, f.doc,
                                  [up |-> TRUE, rules |-> default_rules]).value],
             id)

\* the files whose upload ends with a stored Document
AcceptedFiles ==
    {f \in Files : f.filename \in {"dinner.pdf", "feast.pdf"}}

\* the Document tables earlier requests leave behind
StoredTables ==
    {{}} \cup {{StoredDocument(f, 1)} : f \in AcceptedFiles}
         \cup {{StoredDocument(fg[1], 1), StoredDocument(fg[2], 2)} :
                 fg \in {p \in AcceptedFiles \X AcceptedFiles : p[1] # p[2]}}

\* one request arrives at a server whose table holds earlier documents
InitRequest ==
    /\ req \in [{1} -> {NewRequest(f) : f \in Files}]
    /\ documents \in StoredTables
    /\ uploads = {d.original_filename : d \in documents}
    /\ db = [up |-> TRUE, rules |-> default_rules]
    /\ groq_response = NoText
    /\ json_data = NoDoc
    /\ pc = "serving"
    /\ result = NoResult
    /\ policies = <<>>
    /\ invoice_fields = NoFields
    /\ calls = <<>>

NextRequest ==
    \/ ReceiveFile(1)
    \/ AwaitGroq(1)
    \/ UploadToCloudinary(1)
    \/ AuditAndInsert(1)
    \/ RetryInsert(1)

\* the event loop resumes a request whose awaited call or sleep returned
SpecRequestFair ==
    InitRequest /\ [][NextRequest]_vars /\ WF_vars(NextRequest)

(* ------------------------ vocabulary of the claims --------------------- *)

Done == pc = "done"

Returned == Done /\ result.outcome = "return"

\* the document is JSON text for an object
IsObjectDoc == json_data.t = "json" /\ json_data.v.t = "obj"

\* the items value of the document, [] when the object has none
DocItems ==
    IF "items" \in DOMAIN json_data.v.f THEN json_data.v.f.items
    ELSE List(<<>>)

\* the amount of a line item is a number, a numeral, or absent
NumericAmount(item) ==
    \/ "amount" \notin DOMAIN item.f
    \/ item.f.amount.t = "num"
    \/ /\ item.f.amount.t = "str"
       /\ item.f.amount.s # <<>>
       /\ \A k \in 1..Len(item.f.amount.s) : IsDigit(item.f.amount.s[k])

\* the document is an object whose items are line items, and the rule
\* table can be read
LineItemsInput ==
    /\ IsObjectDoc
    /\ db.up
    /\ DocItems.t = "list"
    /\ \A i \in 1..Len(DocItems.l) :
          DocItems.l[i].t = "obj" /\ NumericAmount(DocItems.l[i])

LineItems == DocItems.l

ItemCategory(item) ==
    IF "category" \in DOMAIN item.f THEN item.f.category ELSE "Others"

ItemAmount(item) ==
    IF "amount" \notin DOMAIN item.f THEN 0
    ELSE IF item.f.amount.t = "num" THEN item.f.amount.n
    ELSE ParseDigits(item.f.amount.s, 0)

\* the rules an item resolves to: its own category's, else that of "Others"
ItemRules(item) ==
    IF ItemCategory(item) \in DOMAIN db.rules
    THEN {db.rules[ItemCategory(item)]}
    ELSE IF "Others" \in DOMAIN db.rules THEN {db.rules["Others"]}
    ELSE {}

ItemRestricted(item) == \E r \in ItemRules(item) : r.is_restricted

ItemOverLimit(item) ==
    \E r \in ItemRules(item) : ItemAmount(item) > r.max_limit

AllResolve == \A i \in 1..Len(LineItems) : ItemRules(LineItems[i]) # {}

SomeRestricted == \E i \in 1..Len(LineItems) : ItemRestricted(LineItems[i])

SomeOverLimit == \E i \in 1..Len(LineItems) : ItemOverLimit(LineItems[i])

Verdict(status, color, score) ==
    /\ result.outcome = "return"
    /\ result.path = "structured"
    /\ result.value.approval_status = status
    /\ result.value.status_color = color
    /\ result.value.compliance_score = score

(* -------------------------------- claims ------------------------------- *)

\* C1: on the structured path, when every item's category resolves and at
\* least one item's resolved rule is restricted, the result is rejected,
\* red, with compliance_score 0, whatever the other items and amounts.
C1_RestrictedRejects ==
    (Done /\ LineItemsInput /\ AllResolve /\ SomeRestricted)
        => Verdict("rejected", "red", 0)

\* a restricted item next to an item over its limit is rejected
C1_Witness ==
    /\ Done /\ LineItemsInput /\ AllResolve
    /\ Len(LineItems) = 2
    /\ ItemRestricted(LineItems[1])
    /\ ~ItemRestricted(LineItems[2]) /\ ItemOverLimit(LineItems[2])
    /\ result.value.approval_status = "rejected"

\* C2: on the structured path, when no item's resolved rule is restricted
\* and at least one item's amount is strictly greater than its resolved
\* rule's max_limit, the result is warning, yellow, compliance_score 50.
C2_OverLimitWarns ==
    (Done /\ LineItemsInput /\ ~SomeRestricted /\ SomeOverLimit)
        => Verdict("warning", "yellow", 50)

\* an item within its limit next to an item over its limit gives a warning
C2_Witness ==
    /\ Done /\ LineItemsInput /\ ~SomeRestricted
    /\ Len(LineItems) = 2
    /\ ItemRules(LineItems[1]) # {} /\ ~ItemOverLimit(LineItems[1])
    /\ ItemOverLimit(LineItems[2])
    /\ result.value.approval_status = "warning"

\* C3: on the structured path, when no item's resolved rule is restricted
\* and no item's amount exceeds its resolved rule's max_limit (the empty
\* item list included), the result is approved, green, compliance_score
\* 100, with an empty violations list.
C3_CleanApproves ==
    (Done /\ LineItemsInput /\ ~SomeRestricted /\ ~SomeOverLimit)
        => /\ Verdict("approved", "green", 100)
           /\ result.value.violations = <<>>

\* an item whose amount equals its rule's limit is approved
C3_Witness ==
    /\ Done /\ LineItemsInput /\ ~SomeRestricted /\ ~SomeOverLimit
    /\ \E i \in 1..Len(LineItems) :
          \E r \in ItemRules(LineItems[i]) :
             ItemAmount(LineItems[i]) = r.max_limit /\ r.max_limit > 0
    /\ result.value.approval_status = "approved"

\* the document is text that json.loads rejects
MalformedDoc == json_data.t = "malformed"

\* the response is a string
TextGiven == groq_response.t = "str"

\* kw occurs in s, letter case ignored
OccursIn(kw, s) ==
    \E i \in 1..(Len(s) - Len(kw) + 1) :
        \A j \in 1..Len(kw) : LowerChar(s[i + j - 1]) = kw[j]

\* the response holds one of the invoice-indicator keywords
MentionsInvoice ==
    \E k \in 1..Len(invoice_keywords) :
        OccursIn(invoice_keywords[k], groq_response.s)

\* positions in alcohol_keywords of the keywords the response holds
AlcoholHits ==
    {k \in 1..Len(alcohol_keywords) :
        OccursIn(alcohol_keywords[k], groq_response.s)}

\* the degraded result of the error handler
Degraded ==
    /\ result.outcome = "return"
    /\ result.value.is_compliant = FALSE
    /\ result.value.total_violations = 1
    /\ Len(result.value.violations) = 1
    /\ result.value.violations[1].violation_type = "processing_error"
    /\ result.value.violations[1].severity = "high"
    /\ Len(result.value.violations[1].message) = 2
    /\ result.value.compliance_score = 0
    /\ result.value.approval_status = None
    /\ result.value.status_color = None

\* C4: perform_audit never raises: for every response, every document
\* (well-formed, malformed or None) and every state of the rule table,
\* the call ends by returning an AuditResult.
C4_NeverRaises == Done => result.outcome = "return"

\* something other than JSON parsing failed in the try block (step 1)
Step1Failure == json_data.t = "none" \/ (json_data.t = "json" /\ ~LineItemsInput)

\* something failed in the keyword fallback (step 2)
Step2Failure == MalformedDoc /\ ~TextGiven

\* C5: a failure that is not a JSON parse failure, in the structured
\* evaluation or in the keyword fallback, yields the degraded result:
\* is_compliant false, one processing_error violation of severity high
\* carrying the description, total_violations 1, compliance_score 0,
\* approval_status and status_color unset.
C5_FailureDegrades == (Done /\ (Step1Failure \/ Step2Failure)) => Degraded

\* the document is a JSON object carrying an items array
HasItemsArray ==
    /\ IsObjectDoc
    /\ "items" \in DOMAIN json_data.v.f
    /\ json_data.v.f.items.t = "list"

C7_AlcoholRejects ==
    (Done /\ MalformedDoc /\ TextGiven /\ MentionsInvoice /\ AlcoholHits # {})
        => /\ result.outcome = "return"
           /\ result.value.approval_status = "rejected"
           /\ result.value.compliance_score = 0
           /\ Len(result.value.violations) = 1
           /\ result.value.violations[1].violation_type = "restricted_item"
           /\ LET flagged == result.value.violations[1].flagged_items
              IN  /\ Len(flagged) = Cardinality(AlcoholHits)
                  /\ \A k \in AlcoholHits :
                        \E j \in 1..Len(flagged) : flagged[j] = alcohol_keywords[k]

\* a response with two alcohol keywords was rejected
C7_Witness ==
    /\ Done /\ MalformedDoc /\ TextGiven /\ MentionsInvoice
    /\ Cardinality(AlcoholHits) = 2
    /\ result.value.approval_status = "rejected"

\* the result is approved with score 100 and no violations
ApprovedClean ==
    /\ result.outcome = "return"
    /\ result.value.approval_status = "approved"
    /\ result.value.compliance_score = 100
    /\ result.value.total_violations = 0
    /\ result.value.violations = <<>>

\* C8: with a malformed document and a response holding no invoice
\* keyword, the result is approved with compliance_score 100 and zero
\* violations, whatever else the response holds.
C8_NotInvoiceApproves ==
    (Done /\ MalformedDoc /\ TextGiven /\ ~MentionsInvoice) => ApprovedClean

\* a response with an alcohol keyword and no invoice keyword was approved
C8_Witness ==
    /\ Done /\ MalformedDoc /\ TextGiven /\ ~MentionsInvoice
    /\ AlcoholHits # {}
    /\ result.value.approval_status = "approved"

restricted_content_words ==
    << <<"s","p","a">>, <<"m","a","s","s","a","g","e">>,
       <<"l","e","i","s","u","r","e">>, <<"j","e","w","e","l","r","y">>,
       <<"d","i","a","m","o","n","d">> >>

MentionsRestrictedContent ==
    \E k \in 1..Len(restricted_content_words) :
        OccursIn(restricted_content_words[k], groq_response.s)

\* C10: on the fallback path, an invoice or receipt response describing
\* restricted entertainment content (spa, massage, leisure) or restricted
\* luxury content (jewelry, diamond) is rejected, as alcohol content is.
C10_RestrictedContentRejects ==
    (Done /\ MalformedDoc /\ TextGiven /\ MentionsInvoice
          /\ MentionsRestrictedContent)
        => (result.outcome = "return" /\ result.value.approval_status = "rejected")

\* the document is an object whose items array holds objects only, and the
\* rule table can be read
ItemObjectsInput ==
    /\ IsObjectDoc
    /\ db.up
    /\ DocItems.t = "list"
    /\ \A i \in 1..Len(DocItems.l) : DocItems.l[i].t = "obj"

\* C11: on the structured path extraction gaps are defaulted: an item with
\* no category or an unknown one is audited against "Others", an item whose
\* amount is absent or is not a number is audited with amount 0, and such
\* an item never turns the audit into the processing_error result.
C11_GapsDefaulted ==
    (Done /\ ItemObjectsInput)
        => /\ result.outcome = "return"
           /\ result.path = "structured"
           /\ result.value.approval_status # None

(* ----------------- claims on the results of all three paths ------------ *)

\* a call of any of the three operations returned a result
AnyReturned ==
    /\ pc \in {"done", "mock_done", "policy_done"}
    /\ result.outcome = "return"

\* C12: total_violations equals the length of the violations list in every
\* AuditResult, whichever operation and branch produced it.
C12_TotalIsLength ==
    AnyReturned => result.value.total_violations = Len(result.value.violations)

\* the policy evaluator returned a warning and a medium violation
C12_Witness ==
    /\ pc = "policy_done"
    /\ result.outcome = "return"
    /\ result.value.total_violations = 2
    /\ \E i, j \in 1..Len(result.value.violations) :
          /\ result.value.violations[i].severity = "warning"
          /\ result.value.violations[j].severity = "medium"

\* C13: in every AuditResult whose approval_status is set, is_compliant is
\* true exactly when approval_status is approved.
C13_CompliantIffApproved ==
    (AnyReturned /\ result.value.approval_status # None)
        => (result.value.is_compliant
              <=> result.value.approval_status = "approved")

\* the mock audit rejected an item list
C13_Witness ==
    /\ pc = "mock_done"
    /\ result.outcome = "return"
    /\ result.value.approval_status = "rejected"
    /\ ~result.value.is_compliant

(* ----------------------- claims on the policy evaluator ---------------- *)

PolicyDone == pc = "policy_done"

PolicyReturned == PolicyDone /\ result.outcome = "return"

\* the active policies of the list, in order
ActivePolicies ==
    LET isActive(p) == p.is_active
    IN  SelectSeq(policies, isActive)

\* the violations of the result with the given violation_type
ViolationsOfType(violation_type) ==
    LET ofType(v) == v.violation_type = violation_type
    IN  SelectSeq(result.value.violations, ofType)

\* a content_warning policy with a keyword list
KeywordPolicy(p) ==
    /\ p.rule_type = "content_warning"
    /\ p.condition = "contains_keywords"
    /\ p.expected_value.t = "str"

\* the keywords of policy p that occur in the raw text, case-insensitively
MatchedKeywords(p) ==
    LET occurs(kw) == OccursIn(kw, groq_response.s)
    IN  SelectSeq(Keywords(p.expected_value.s), occurs)

\* C15: an active content_warning policy is evaluated against the raw
\* source text: when a keyword of its comma-separated expected_value occurs
\* in the text as a case-insensitive substring, the result carries one
\* content_warning violation whose flagged_items are the matched keywords,
\* even when the policy's extracted field is absent.
C15_ContentWarningFlags ==
    PolicyDone =>
        \A k \in 1..Len(ActivePolicies) :
            (KeywordPolicy(ActivePolicies[k])
               /\ MatchedKeywords(ActivePolicies[k]) # <<>>)
            => /\ result.outcome = "return"
               /\ \E v \in 1..Len(result.value.violations) :
                     /\ result.value.violations[v].violation_type = "content_warning"
                     /\ result.value.violations[v].flagged_items
                            = MatchedKeywords(ActivePolicies[k])

\* number of violations of the result that count as errors
ErrorCount ==
    LET isError(v) == v.severity \in {"medium", "high"}
    IN  Len(SelectSeq(result.value.violations, isError))

\* is_compliant exactly without violations, approval_status and
\* status_color unset
CompliantAndUnset ==
    /\ result.value.is_compliant <=> (result.value.violations = <<>>)
    /\ result.value.approval_status = None
    /\ result.value.status_color = None

\* C16 as stated: compliance_score = max(0, (A - E) / A * 100) for A active
\* policies and E violations of severity medium or high, 100 when A = 0;
\* is_compliant exactly without violations; approval_status and
\* status_color unset. The score is held in hundredths of a point.
C16_ExactScore ==
    PolicyReturned =>
        /\ IF Len(ActivePolicies) = 0
           THEN result.value.compliance_score = 100 * 100
           ELSE result.value.compliance_score * Len(ActivePolicies)
                  = 100 * 100 * (Len(ActivePolicies) - ErrorCount)
        /\ CompliantAndUnset

\* C16 amended: the score is that quotient rounded to two decimals, that
\* is the multiple of a hundredth nearest to it.
C16_RoundedScore ==
    PolicyReturned =>
        /\ IF Len(ActivePolicies) = 0
           THEN result.value.compliance_score = 100 * 100
           ELSE LET A == Len(ActivePolicies)
                    d == result.value.compliance_score * A
                           - 100 * 100 * (A - ErrorCount)
                IN  /\ 2 * d <= A
                    /\ 2 * d > -A
        /\ CompliantAndUnset

\* three active policies, one violation that counts: the score is 66.67
C16_Witness ==
    /\ PolicyReturned
    /\ Len(ActivePolicies) = 3
    /\ ErrorCount = 1
    /\ result.value.compliance_score = 6667

\* the field value is a number or a numeral
NumericValue(v) ==
    \/ v.t = "num"
    \/ v.t = "str" /\ v.s # <<>> /\ \A k \in 1..Len(v.s) : IsDigit(v.s[k])

NumberOf(v) == IF v.t = "num" THEN v.n ELSE ParseDigits(v.s, 0)

\* policy p bounds the amount on the side given by condition, and the
\* field of the invoice is out of that bound
OutOfBound(p, condition) ==
    /\ p.rule_type = "amount_limit"
    /\ p.condition = condition
    /\ p.field_name \in DOMAIN invoice_fields
    /\ NumericValue(invoice_fields[p.field_name])
    /\ NumericValue(p.expected_value)
    /\ IF condition = "max_value"
       THEN NumberOf(invoice_fields[p.field_name]) > NumberOf(p.expected_value)
       ELSE NumberOf(invoice_fields[p.field_name]) < NumberOf(p.expected_value)

\* the active policies out of bound on the side given by condition
PoliciesOutOfBound(condition) ==
    LET out(p) == OutOfBound(p, condition)
    IN  SelectSeq(ActivePolicies, out)

\* C17: an active amount_limit policy yields amount_exceeded when its
\* condition is max_value and the numeric field value is greater than
\* expected_value, amount_below_minimum when its condition is min_value and
\* the value is less than expected_value, for every numeric value, 0
\* included, and nothing when the field or expected_value is not numeric.
C17_AmountLimits ==
    PolicyReturned =>
        /\ Len(ViolationsOfType("amount_exceeded"))
              = Len(PoliciesOutOfBound("max_value"))
        /\ Len(ViolationsOfType("amount_below_minimum"))
              = Len(PoliciesOutOfBound("min_value"))

\* C18: a numeric or format parse failure inside validate_against_policies
\* (a non-numeric amount or limit, an expected_value that is missing or is
\* not a usable pattern or keyword list) makes that policy count as not
\* violated and is never escalated: a result is returned. Lists with a
\* usable keyword list are left to C15.
C18_ParseFailuresSkipped ==
    (PolicyDone /\ \A k \in 1..Len(ActivePolicies) :
                       ~KeywordPolicy(ActivePolicies[k]))
        => result.outcome = "return"

(* --------------------------- claim on startup -------------------------- *)

\* the process went through startup seeding
Seeded == pc \in {"seeded", "audited"}

\* C20: after startup seeding, whatever the rule store held before, a rule
\* keyed "Others" exists and every item category resolves to exactly one
\* rule.
C20_OthersAfterSeeding ==
    Seeded =>
        /\ "Others" \in DOMAIN db.rules
        /\ \A c \in ItemCats : Len(ResolveRule(db.rules, c)) = 1

(* ------------------------- claim on concurrency ------------------------ *)

\* every invocation that ended returned what perform_audit returns for its
\* arguments and the rule table when run alone
ResultsAsAlone ==
    \A i \in DOMAIN calls :
        calls[i].at = "done"
            => calls[i].result = perform_audit(calls[i].text, calls[i].doc, db)

\* C19: perform_audit is stateless and read-only: under any interleaving of
\* concurrent invocations each invocation returns the result of running it
\* alone on the same raw text, structured document and rule store, and no
\* step of an invocation modifies the rule store.
C19_StatelessReadOnly == []ResultsAsAlone /\ [][db' = db]_vars

\* two invocations ended with different results, one on the structured
\* path with two violations
C19_Witness ==
    /\ \A i \in DOMAIN calls : calls[i].at = "done"
    /\ \E i, j \in DOMAIN calls :
          /\ calls[i].result # calls[j].result
          /\ calls[i].result.path = "structured"
          /\ calls[i].result.value.total_violations = 2
          /\ calls[j].result.path = "structured"

(* ------------------------- claim on the upload flow -------------------- *)

\* the audit of the request's document ended with approval_status rejected
AuditRejected(request) ==
    /\ request.audit_result # NoResult
    /\ request.audit_result.approval_status = "rejected"

\* no row of the Document table holds a rejected audit result
NoRejectedDocument ==
    \A d \in documents : d.audit_result.approval_status # "rejected"

\* the step in which a request learns that its audit is rejected ends the
\* request with status 400 and leaves the Document table as it was
RejectionEndsRequest ==
    \A r \in DOMAIN req :
        (~AuditRejected(req[r]) /\ AuditRejected(req'[r]))
            => /\ req'[r].at = "done"
               /\ req'[r].status = 400
               /\ documents' = documents

\* C14: in the upload flow a document whose audit result has approval_status
\* rejected is never persisted: the request ends with HTTP 400 and the
\* Document table is unchanged.
C14_RejectedNotPersisted ==
    /\ []NoRejectedDocument
    /\ [][RejectionEndsRequest]_vars
    /\ [](\A r \in DOMAIN req : AuditRejected(req[r]) => req[r].status = 400)

\* a request was rejected by the audit while another one's document is stored
C14_Witness ==
    \E r, q \in DOMAIN req :
        /\ AuditRejected(req[r])
        /\ req[r].status = 400
        /\ req[q].status = 200
        /\ documents # {}

(* -------------------- claims on the structured evaluation -------------- *)

\* the positions of the line items satisfying P
ItemsWhere(P(_)) == {i \in 1..Len(LineItems) : P(LineItems[i])}

\* the item's rule is not restricted and its amount is above the limit
ItemOnlyOverLimit(item) == ~ItemRestricted(item) /\ ItemOverLimit(item)

\* the positions of the violations of the result with the given type and
\* severity
ViolationsWhere(violation_type, severity) ==
    {v \in 1..Len(result.value.violations) :
        /\ result.value.violations[v].violation_type = violation_type
        /\ result.value.violations[v].severity = severity}

\* C21: on the structured path each item contributes at most one violation:
\* restricted_item (severity high) when its resolved rule is restricted,
\* whatever its amount, otherwise amount_exceeded (severity medium) exactly
\* when amount > max_limit; no item yields both, so total_violations never
\* exceeds the number of items.
C21_OneViolationPerItem ==
    (Done /\ LineItemsInput) =>
        /\ result.outcome = "return"
        /\ result.path = "structured"
        /\ Cardinality(ViolationsWhere("restricted_item", "high"))
              = Cardinality(ItemsWhere(ItemRestricted))
        /\ Cardinality(ViolationsWhere("amount_exceeded", "medium"))
              = Cardinality(ItemsWhere(ItemOnlyOverLimit))
        /\ Len(result.value.violations)
              = Cardinality(ItemsWhere(ItemRestricted))
                  + Cardinality(ItemsWhere(ItemOnlyOverLimit))
        /\ result.value.total_violations <= Len(LineItems)

\* two items, one restricted with an amount above the limit of its rule,
\* one over its limit only: two violations
C21_Witness ==
    /\ Done
    /\ LineItemsInput
    /\ Len(LineItems) = 2
    /\ \E i \in ItemsWhere(ItemRestricted) : ItemOverLimit(LineItems[i])
    /\ ItemsWhere(ItemOnlyOverLimit) # {}
    /\ result.outcome = "return"
    /\ result.value.total_violations = 2

\* the rule the claim resolves an item to: the rule of the item's category,
\* else the rule keyed "Others", else none
ClaimedRule(item) ==
    IF ItemCategory(item) \in DOMAIN db.rules
    THEN <<db.rules[ItemCategory(item)]>>
    ELSE IF "Others" \in DOMAIN db.rules THEN <<db.rules["Others"]>>
    ELSE <<>>

\* no item of the document has a rule of its category or an "Others" rule
NoItemResolves ==
    \A i \in 1..Len(LineItems) : ClaimedRule(LineItems[i]) = <<>>

\* the verdict a single item gets from rule r
VerdictUnder(r, item) ==
    IF r.is_restricted THEN Verdict("rejected", "red", 0)
    ELSE IF ItemAmount(item) > r.max_limit THEN Verdict("warning", "yellow", 50)
    ELSE Verdict("approved", "green", 100)

\* C22: an item's rule is the rule whose category equals the item's
\* category, else the rule keyed "Others"; when neither exists the item is
\* skipped without any violation, so with a rule store holding no matching
\* rule and no "Others" rule every item list is approved with
\* compliance_score 100.
C22_RuleResolution ==
    (Done /\ LineItemsInput) =>
        /\ (Len(LineItems) = 1 /\ ClaimedRule(LineItems[1]) # <<>>)
              => VerdictUnder(ClaimedRule(LineItems[1])[1], LineItems[1])
        /\ NoItemResolves
              => /\ Verdict("approved", "green", 100)
                 /\ result.value.violations = <<>>
                 /\ result.value.is_compliant

\* two items of categories without a rule, in a non-empty store without an
\* "Others" rule: approved with score 100
C22_Witness ==
    /\ Done
    /\ LineItemsInput
    /\ Len(LineItems) = 2
    /\ DOMAIN db.rules # {}
    /\ "Others" \notin DOMAIN db.rules
    /\ NoItemResolves
    /\ Verdict("approved", "green", 100)

\* raw texts to compare a call with: no text, a text without and a text
\* with alcohol keywords
ComparedTexts ==
    {NoText, Str(W_Invoice \o <<" ">> \o W_lunch),
     Str(W_wine \o <<" ">> \o W_WHISKEY)}

\* structured_json parses as JSON
Parses == json_data.t = "json"

\* C23: when structured_json parses, the result of perform_audit does not
\* depend on raw_text: a call with the same structured_json and rule store
\* and another raw_text returns the identical result, and alcohol keywords
\* in raw_text alone never cause a rejection on the structured path.
C23_TextIgnoredWhenParsed ==
    (Done /\ Parses) =>
        /\ \A text \in ComparedTexts :
              perform_audit(text, json_data, db) = result
        /\ (LineItemsInput /\ TextGiven /\ AlcoholHits # {} /\ ~SomeRestricted)
              => /\ result.outcome = "return"
                 /\ result.value.approval_status # "rejected"

\* a document of unrestricted items audited with a raw text that names
\* whiskey: not rejected
C23_Witness ==
    /\ Done
    /\ LineItemsInput
    /\ Len(LineItems) = 2
    /\ TextGiven
    /\ AlcoholHits # {}
    /\ ~SomeRestricted
    /\ result.outcome = "return"
    /\ result.value.approval_status = "approved"

(* ---------------------- claim on the shape of results ------------------ *)

\* the colour that goes with a status
ColorOf(approval_status) ==
    CASE approval_status = "approved" -> "green"
      [] approval_status = "warning"  -> "yellow"
      [] approval_status = "rejected" -> "red"
      [] OTHER                        -> None

\* C24: every AuditResult returned by perform_audit has is_compliant true
\* exactly when the violations list is empty and exactly when
\* compliance_score = 100; compliance_score is one of 0, 50, 100; and
\* status_color is green, yellow or red exactly when approval_status is
\* approved, warning or rejected, both being unset together.
C24_ResultShape ==
    Returned =>
        /\ result.value.is_compliant <=> (result.value.violations = <<>>)
        /\ result.value.is_compliant <=> (result.value.compliance_score = 100)
        /\ result.value.compliance_score \in {0, 50, 100}
        /\ result.value.approval_status
              \in {"approved", "warning", "rejected", None}
        /\ result.value.status_color = ColorOf(result.value.approval_status)

\* a warning: not compliant, score 50, yellow, with a violation
C24_Witness ==
    /\ Returned
    /\ result.value.approval_status = "warning"
    /\ result.value.status_color = "yellow"
    /\ result.value.compliance_score = 50
    /\ ~result.value.is_compliant
    /\ result.value.violations # <<>>

(* ------------------- claims on the order of the upload flow ------------ *)

\* the text holds one of the invoice keywords of upload_document
PassesInvoiceCheck(text) ==
    /\ text.t = "str"
    /\ \E k \in 1..Len(upload_invoice_keywords) :
          OccursIn(upload_invoice_keywords[k], text.s)

\* the request's file was sent to the external storage
Stored(request) == request.cloudinary_url # None

\* perform_audit returned for the request
Audited(request) == request.audit_result # NoResult

\* the request's file fails the size, extension, processability or
\* invoice-keyword check, or the request ended as a duplicate
FailsACheck(request) ==
    \/ request.file.size > MAX_FILE_SIZE
    \/ request.file.extension \notin ALLOWED_EXTENSIONS
    \/ /\ request.file.extension \notin {"png", "jpg"}
       /\ ~request.file.is_processable
    \/ ~PassesInvoiceCheck(request.file.text)
    \/ /\ request.at = "done"
       /\ request.detail = "Duplicate flagged and cant upload again"

\* storage only after the invoice check, audit only after storage, and a
\* request failing a check neither stored nor audited
OrderedRequests ==
    \A r \in DOMAIN req :
        /\ Stored(req[r]) => PassesInvoiceCheck(req[r].groq_response)
        /\ Audited(req[r]) => Stored(req[r])
        /\ FailsACheck(req[r])
              => /\ ~Stored(req[r])
                 /\ ~Audited(req[r])
                 /\ req[r].status # 200

\* every stored Document went through storage and a non-rejected audit
DocumentsAudited ==
    \A d \in documents :
        /\ d.cloudinary_url # None
        /\ d.audit_result # NoResult
        /\ d.audit_result.approval_status # "rejected"

\* the external storage changes only for a request past the invoice check,
\* the Document table only for a request that was stored and audited and
\* is not rejected, and never in a step of a request failing a check
OrderedWrites ==
    /\ uploads' # uploads
          => \E r \in DOMAIN req :
                /\ req'[r] # req[r]
                /\ PassesInvoiceCheck(req[r].groq_response)
                /\ ~FailsACheck(req'[r])
    /\ documents' # documents
          => \E r \in DOMAIN req :
                /\ req'[r] # req[r]
                /\ Stored(req[r])
                /\ Audited(req'[r])
                /\ req'[r].audit_result.approval_status # "rejected"
                /\ ~FailsACheck(req'[r])

InsertLoopBounded ==
    \A r \in DOMAIN req :
        /\ req[r].attempt <= max_retries - 1
        /\ req[r].at = "sleep" => (req[r].attempt >= 1 /\ req[r].pending = 0)
        /\ req[r].at = "done" => req[r].pending = 0

\* a step of the insert loop: a commit ends the request with 200 and adds
\* exactly one Document; a failed pass adds none and either sleeps with the
\* counter raised by one or, on the third pass, ends the request with 500;
\* a request that ended takes no further step
InsertLoopStep ==
    /\ documents' # documents
          => /\ Cardinality(documents') = Cardinality(documents) + 1
             /\ \E r \in DOMAIN req :
                   /\ req[r].at \in {"audit", "sleep"}
                   /\ req'[r].at = "done"
                   /\ req'[r].status = 200
                   /\ \A q \in DOMAIN req \ {r} : req'[q] = req[q]
    /\ \A r \in DOMAIN req :
          /\ req[r].at = "done" => req'[r] = req[r]
          /\ (req[r].at = "sleep" /\ req'[r] # req[r] /\ documents' = documents)
                => IF req[r].attempt = max_retries - 1
                   THEN req'[r].at = "done" /\ req'[r].status = 500
                   ELSE /\ req'[r].at = "sleep"
                        /\ req'[r].attempt = req[r].attempt + 1
          /\ (req[r].at = "sleep" /\ req'[r].at = "sleep")
                => req'[r].attempt >= req[r].attempt

\* every request has ended with an HTTP status
AllEnded ==
    \A r \in DOMAIN req :
        req[r].at = "done" /\ req[r].status \in {200, 400, 413, 500}

NoSharedHash ==
    \A d1 \in documents : \A d2 \in documents :
        d1.file_hash = d2.file_hash => d1 = d2

\* the file of the request passes the size and extension checks and its
\* hash is in the Document table
AlreadyStored(request) ==
    /\ request.file.size <= MAX_FILE_SIZE
    /\ request.file.extension \in ALLOWED_EXTENSIONS
    /\ \E d \in documents : d.file_hash = generate_file_hash(request.file)

\* a request received while its hash is stored ends at once with HTTP 400,
\* before any model call, storage upload or Document write
DuplicateEnds400 ==
    \A r \in DOMAIN req :
        (req[r].at = "received" /\ req'[r] # req[r] /\ AlreadyStored(req[r]))
            => /\ req'[r].at = "done"
               /\ req'[r].status = 400
               /\ documents' = documents
               /\ uploads' = uploads

\* C27: after any sequence or interleaving of upload requests, relying only
\* on the lookup performed in upload_document (the case where that lookup
\* fails included), no two persisted Documents share a file_hash; an upload
\* whose file_hash is already stored ends with HTTP 400 and performs no
\* model call, no storage upload and no Document write.
C27_DuplicatesBlocked ==
    /\ []NoSharedHash
    /\ [][DuplicateEnds400]_vars

====
